---- MODULE Spec2Model ----
(***************************************************************************)
(* A model of the remote queries manager of the CodeQL extension           *)
(* (remote-queries-manager.ts): monitoring a variant analysis workflow,    *)
(* mapping and persisting its result index as query-result.json, the       *)
(* auto-download filter, and the rehydrate / remove operations on the      *)
(* per-query storage directory.                                            *)
(*                                                                         *)
(* Optional values (a property that may be undefined) are sequences of     *)
(* length at most one: << >> is undefined, <<v>> is the value v.           *)
(***************************************************************************)
EXTENDS Integers, Sequences, FiniteSets, TLC

VARIABLES
    dirExists,        \* queryId -> the storage directory <storagePath>/<queryId> exists
    files,            \* queryId -> the text of query-result.json, if the file exists
    analysesResults,  \* queryId -> repositories whose results are held in memory
    removing,         \* queryId -> a removeRemoteQuery call awaits the directory removal
    calls,            \* monitorRemoteQuery calls: position, arguments, locals, effects
    clock,            \* Date.now()
    pendingDownloads, \* issued codeQL.autoDownloadRemoteQueryResults commands not yet run
    loaded,           \* the calls made to analysesResultsManager.loadAnalysesResults
    rehydrated,       \* the latest rehydrateRemoteQuery call: what it fired and issued
    view,             \* what the remote queries view shows (openResults)
    lastStored,       \* queryId -> the RemoteQueryResult of the latest completed store
    clipboard,        \* env.clipboard: the text last written, as its lines
    comparePair,      \* CompareView.comparePair
    panel,            \* the compare view's webview panel: "none", "loading", "loaded"
    tasks,            \* showResults calls and changeCompare handlers in progress
    opened,           \* what showQueryResultsCallback was last called with
    disposedSince     \* the panel was disposed and showResults not called since

managerVars == <<dirExists, files, analysesResults, removing, calls, clock,
                 pendingDownloads, loaded, rehydrated, view, lastStored>>

compareVars == <<comparePair, panel, tasks, opened, disposedSince>>

vars == <<managerVars, clipboard, compareVars>>

-----------------------------------------------------------------------------
(* Program constants *)

autoDownloadMaxSize == 300 * 1024
autoDownloadMaxCount == 100

(* Bounds of the model *)

MaxRepos == 2        \* repositories in a result index a monitor call fetches
MaxPattern == 2      \* period of the repository kinds in a long result index
MaxExtra == 1        \* repositories beyond the count cap in a long result index

\* two queries, so that an operation on one can be told from its effect on the other
QueryIds == {"q1", "q2"}

\* two monitorRemoteQuery calls, so that two stores can follow or overlap each other
CallIds == {1, 2}

None == << >>
Some(v) == <<v>>
IsDefined(o) == o # None

Min(a, b) == IF a < b THEN a ELSE b

-----------------------------------------------------------------------------
(* The result index a workflow run publishes (RemoteQueryResultIndex), as  *)
(* returned by getRemoteQueryIndex.                                        *)

ItemKinds ==
    { [sha |-> None, resultCount |-> 0,
       sarifFileSize |-> None, bqrsFileSize |-> autoDownloadMaxSize - 1],
      [sha |-> Some("abc"), resultCount |-> 2,
       sarifFileSize |-> Some(autoDownloadMaxSize), bqrsFileSize |-> 1],
      [sha |-> Some(""), resultCount |-> 1,
       sarifFileSize |-> Some(0), bqrsFileSize |-> autoDownloadMaxSize + 1],
      [sha |-> Some("abc"), resultCount |-> 3,
       sarifFileSize |-> Some(autoDownloadMaxSize - 1),
       bqrsFileSize |-> autoDownloadMaxSize + 1] }

Nwo(i) == "owner/repo" \o ToString(i)

SuccessItem(kind, i) ==
    [nwo |-> Nwo(i), sha |-> kind.sha, resultCount |-> kind.resultCount,
     sourceLocationPrefix |-> "/src", sarifFileSize |-> kind.sarifFileSize,
     bqrsFileSize |-> kind.bqrsFileSize, artifactId |-> 1000 + i]

\* n repositories whose kinds repeat the pattern
Successes(pattern, n) ==
    [i \in 1..n |-> SuccessItem(pattern[((i - 1) % Len(pattern)) + 1], i)]

Patterns(maxLen) == UNION {[1..k -> ItemKinds] : k \in 1..maxLen}

NoFailures == << >>
OneFailure == <<[nwo |-> "owner/broken", error |-> "timed out"]>>
TwoFailures == OneFailure \o <<[nwo |-> "owner/huge", error |-> "out of disk"]>>

ResultIndex(successes, failures) ==
    [artifactsUrlPath |-> "/repos/ctrl/artifacts",
     successes |-> successes, failures |-> failures]

\* the result indexes a monitored workflow run can produce in the model
ShortPatterns ==
    { p \in Patterns(MaxRepos) :
        /\ Len(p) = MaxRepos
        /\ \A i \in DOMAIN p : p[i].resultCount = (i + 1) % 4 }

ShortIndexes ==
    { ResultIndex(Successes(p, n), IF n = 1 THEN NoFailures ELSE OneFailure) :
        p \in ShortPatterns, n \in 0..MaxRepos }

\* result indexes with around autoDownloadMaxCount eligible repositories
LongLens ==
    { k * autoDownloadMaxCount + d : k \in 1..MaxPattern, d \in (-1)..MaxExtra }

LongIndexes ==
    { ResultIndex(Successes(p, n), << >>) :
        p \in Patterns(MaxPattern), n \in LongLens }

\* RepositoriesMetadata: nwo -> star count and last update, for some repositories
MetadataFor(nwos) == [n \in nwos |-> [starCount |-> 5, lastUpdated |-> 7]]

MetadataChoices(resultIndex) ==
    { MetadataFor({}),
      MetadataFor({resultIndex.successes[i].nwo :
                     i \in {j \in DOMAIN resultIndex.successes : j % 2 = 1}}) }

-----------------------------------------------------------------------------
(* mapQueryResult and the helpers it uses *)

\* JavaScript truthiness of an optional number / string
TruthyNumber(o) == IsDefined(o) /\ o[1] # 0
TruthyString(o) == IsDefined(o) /\ o[1] # ""

\* metadata[nwo]?.field
MetadataField(metadata, nwo, field) ==
    IF nwo \in DOMAIN metadata THEN Some(metadata[nwo][field]) ELSE None

\* a mapping that names the SARIF file whenever a SARIF size is reported, even 0
mapSuccessSarifWhenPresent(item, resultIndex, queryId, metadata) ==
    [nwo |-> item.nwo,
     databaseSha |-> IF TruthyString(item.sha) THEN item.sha[1] ELSE "HEAD",
     resultCount |-> item.resultCount,
     sourceLocationPrefix |-> item.sourceLocationPrefix,
     fileSizeInBytes |-> IF TruthyNumber(item.sarifFileSize)
                         THEN item.sarifFileSize[1]
                         ELSE item.bqrsFileSize,
     starCount |-> MetadataField(metadata, item.nwo, "starCount"),
     lastUpdated |-> MetadataField(metadata, item.nwo, "lastUpdated"),
     downloadLink |->
        [id |-> ToString(item.artifactId),
         urlPath |-> resultIndex.artifactsUrlPath \o "/" \o ToString(item.artifactId),
         innerFilePath |-> IF IsDefined(item.sarifFileSize)
                           THEN "results.sarif" ELSE "results.bqrs",
         queryId |-> queryId]]

mapSuccess(item, resultIndex, queryId, metadata) ==
    [nwo |-> item.nwo,
     databaseSha |-> IF TruthyString(item.sha) THEN item.sha[1] ELSE "HEAD",
     resultCount |-> item.resultCount,
     sourceLocationPrefix |-> item.sourceLocationPrefix,
     fileSizeInBytes |-> IF TruthyNumber(item.sarifFileSize)
                         THEN item.sarifFileSize[1]
                         ELSE item.bqrsFileSize,
     starCount |-> MetadataField(metadata, item.nwo, "starCount"),
     lastUpdated |-> MetadataField(metadata, item.nwo, "lastUpdated"),
     downloadLink |->
        [id |-> ToString(item.artifactId),
         urlPath |-> resultIndex.artifactsUrlPath \o "/" \o ToString(item.artifactId),
         innerFilePath |-> IF TruthyNumber(item.sarifFileSize)
                           THEN "results.sarif" ELSE "results.bqrs",
         queryId |-> queryId]]

mapQueryResult(executionEndTime, resultIndex, queryId, metadata) ==
    [executionEndTime |-> executionEndTime,
     analysisSummaries |->
        [i \in DOMAIN resultIndex.successes |->
            mapSuccess(resultIndex.successes[i], resultIndex, queryId, metadata)],
     analysisFailures |->
        [i \in DOMAIN resultIndex.failures |->
            [nwo |-> resultIndex.failures[i].nwo,
             error |-> resultIndex.failures[i].error]],
     queryId |-> queryId]

RECURSIVE SumResultCounts(_, _)
SumResultCounts(summaries, n) ==
    IF n = 0 THEN 0
    ELSE SumResultCounts(summaries, n - 1) + summaries[n].resultCount

sumAnalysisSummariesResults(analysisSummaries) ==
    SumResultCounts(analysisSummaries, Len(analysisSummaries))

-----------------------------------------------------------------------------
(* query-result.json: JSON.stringify writes the own properties of an       *)
(* object in order and leaves out the ones whose value is undefined;       *)
(* JSON.parse builds an object from the properties the text holds, and     *)
(* reading a property the text does not hold yields undefined.  The text   *)
(* is modelled as the tree of the properties it holds.                     *)

NoFile == None

OptionalSummaryKeys == {"starCount", "lastUpdated"}

JsonStringifySummary(a) ==
    [k \in {j \in DOMAIN a : j \notin OptionalSummaryKeys \/ IsDefined(a[j])} |->
        IF k \in OptionalSummaryKeys THEN a[k][1] ELSE a[k]]

JsonParseSummary(d) ==
    [k \in DOMAIN d \cup OptionalSummaryKeys |->
        IF k \in OptionalSummaryKeys
        THEN (IF k \in DOMAIN d THEN Some(d[k]) ELSE None)
        ELSE d[k]]

JsonStringify(queryResult) ==
    [executionEndTime |-> queryResult.executionEndTime,
     analysisSummaries |->
        [i \in DOMAIN queryResult.analysisSummaries |->
            JsonStringifySummary(queryResult.analysisSummaries[i])],
     analysisFailures |-> queryResult.analysisFailures,
     queryId |-> queryResult.queryId]

JsonParse(text) ==
    [executionEndTime |-> text.executionEndTime,
     analysisSummaries |->
        [i \in DOMAIN text.analysisSummaries |->
            JsonParseSummary(text.analysisSummaries[i])],
     analysisFailures |-> text.analysisFailures,
     queryId |-> text.queryId]

\* a store whose path leaves out the queryId: every query shares one file
storeJsonFileSharedPath(fs, queryId, obj) ==
    [q \in DOMAIN fs |-> Some(JsonStringify(obj))]

\* storeJsonFile(queryId, "query-result.json", obj): the files after the write
storeJsonFile(fs, queryId, obj) ==
    [fs EXCEPT ![queryId] = Some(JsonStringify(obj))]

\* retrieveJsonFile(queryId, "query-result.json"); readFile throws on a missing file
CanRetrieve(queryId) == files[queryId] # NoFile
retrieveJsonFile(queryId) == JsonParse(files[queryId][1])

\* queryRecordExists
queryRecordExists(queryId) == dirExists[queryId]

-----------------------------------------------------------------------------
(* autoDownloadRemoteQueryResults: the analyses handed to                  *)
(* loadAnalysesResults                                                     *)

\* a size check that lets a file of exactly the maximum size through
SizeEligibleInclusive(a) == a.fileSizeInBytes <= autoDownloadMaxSize

SizeEligible(a) == a.fileSizeInBytes < autoDownloadMaxSize

Slice(s, count) == SubSeq(s, 1, Min(Len(s), count))

AnalysisToDownload(a) ==
    [nwo |-> a.nwo,
     databaseSha |-> a.databaseSha,
     resultCount |-> a.resultCount,
     sourceLocationPrefix |-> a.sourceLocationPrefix,
     downloadLink |-> a.downloadLink,
     fileSize |-> ToString(a.fileSizeInBytes)]

\* the count cap applied before the size filter
analysesToDownloadSliceFirst(queryResult) ==
    LET kept == SelectSeq(Slice(queryResult.analysisSummaries, autoDownloadMaxCount),
                          SizeEligible)
    IN  [i \in DOMAIN kept |-> AnalysisToDownload(kept[i])]

analysesToDownload(queryResult) ==
    LET kept == Slice(SelectSeq(queryResult.analysisSummaries, SizeEligible),
                      autoDownloadMaxCount)
    IN  [i \in DOMAIN kept |-> AnalysisToDownload(kept[i])]

\* AnalysesResultsManager: the in-memory results per query
loadAnalysesResults(mem, queryId, analyses) ==
    [mem EXCEPT ![queryId] = @ \cup {analyses[i].nwo : i \in DOMAIN analyses}]

removeAnalysesResults(mem, queryId) ==
    [mem EXCEPT ![queryId] = {}]

-----------------------------------------------------------------------------
(* Status events and the other effects of a monitorRemoteQuery call        *)

StatusEvent(queryId, status, failureReason, repositoryCount, resultCount) ==
    [t |-> "statusUpdate", queryId |-> queryId, status |-> status,
     failureReason |-> failureReason, repositoryCount |-> repositoryCount,
     resultCount |-> resultCount]

Effect(kind) == [t |-> kind]

\* error?.includes("cancelled")
Includes(s, sub) ==
    \E i \in 1..(Len(s) - Len(sub) + 1) : SubSeq(s, i, i + Len(sub) - 1) = sub

\* a cancellation test that compares the whole error text
IsCancelledErrorExact(error) == IsDefined(error) /\ error[1] = "cancelled"

IsCancelledError(error) == IsDefined(error) /\ Includes(error[1], "cancelled")

WorkflowResults ==
    { [status |-> "CompletedSuccessfully", error |-> None],
      [status |-> "CompletedUnsuccessfully", error |-> None],
      [status |-> "CompletedUnsuccessfully", error |-> Some("Workflow failed")],
      [status |-> "CompletedUnsuccessfully",
       error |-> Some("The run was cancelled by a user")],
      [status |-> "Cancelled", error |-> None],
      [status |-> "InProgress", error |-> None] }

\* the workflow ended in one of the two ways the manager treats as a cancellation
WasCancelled(w) ==
    \/ w.status = "Cancelled"
    \/ w.status = "CompletedUnsuccessfully" /\ IsCancelledError(w.error)

IdleCall ==
    [pc |-> "idle", queryId |-> "", workflow |-> [status |-> "InProgress", error |-> None],
     executionEndTime |-> 0, resultIndex |-> None, queryResult |-> None,
     log |-> << >>]

QueryStatuses == {"InProgress", "Completed", "Failed"}

Fired(c, effects) == calls[c].log \o effects

-----------------------------------------------------------------------------
(* The compare view after construction: no compare pair, no panel, no call *)
(* of showResults and no message handler in progress.                      *)

TaskIds == {1, 2}

\* a call of showResults, or the handling of a changeCompare message: where it
\* stands, its arguments, its local commonResultSetNames, the compare pair it
\* read for findResultSetsToCompare, whether getResultSet found no schema, how
\* resultsDiff ended, whether the compare pair was undefined when it began, and
\* the messages it has posted.  A local is forgotten after its last use.
IdleTask ==
    [pc |-> "idle", kind |-> "none", from |-> "", to |-> "",
     selectedResultSetName |-> None, commonResultSetNames |-> << >>,
     pair |-> None, schemaMissing |-> FALSE, diff |-> "none",
     beganUndefined |-> FALSE, log |-> << >>]

CompareInit ==
    /\ comparePair = None
    /\ panel = "none"
    /\ tasks = [t \in TaskIds |-> IdleTask]
    /\ opened = None
    /\ disposedSince = FALSE

-----------------------------------------------------------------------------
(* Initial state: the manager has been constructed over a storage path     *)
(* that holds a directory for every known query; no result has arrived.    *)

Init ==
    /\ dirExists = [q \in QueryIds |-> TRUE]
    /\ files = [q \in QueryIds |-> NoFile]
    /\ analysesResults = [q \in QueryIds |-> {}]
    /\ removing = [q \in QueryIds |-> FALSE]
    /\ calls = [c \in CallIds |-> IdleCall]
    /\ clock = 0
    /\ pendingDownloads = {}
    /\ loaded = {}
    /\ rehydrated = None
    /\ view = None
    /\ lastStored = [q \in QueryIds |-> None]
    /\ clipboard = None
    /\ CompareInit

-----------------------------------------------------------------------------
(* monitorRemoteQuery, up to its first await after the workflow has ended: *)
(* the branch on the workflow status, and for a finished or cancelled      *)
(* workflow the call of downloadAvailableResults up to getRemoteQueryIndex *)

\* a branch on the workflow status that looks for results after a failure too
MonitorBranchDownloadAfterFailure(start, queryId, w) ==
    LET cancelledEvent ==
            StatusEvent(queryId, "Failed", Some("Cancelled"), None, None)
        fetch == Effect("getRemoteQueryIndex")
    IN  IF w.status = "CompletedSuccessfully"
        THEN [start EXCEPT !.pc = "getIndex", !.log = <<fetch>>]
        ELSE IF w.status = "CompletedUnsuccessfully"
        THEN IF IsCancelledError(w.error)
             THEN [start EXCEPT !.pc = "getIndex", !.log = <<cancelledEvent, fetch>>]
             ELSE [start EXCEPT !.pc = "getIndex",
                     !.log = <<StatusEvent(queryId, "Failed", w.error, None, None),
                               fetch>>]
        ELSE IF w.status = "Cancelled"
        THEN [start EXCEPT !.pc = "getIndex", !.log = <<cancelledEvent, fetch>>]
        ELSE [start EXCEPT !.pc = "done",
                !.log = <<Effect("showExceptionUnexpectedStatus")>>]

MonitorBranch(start, queryId, w) ==
    LET cancelledEvent ==
            StatusEvent(queryId, "Failed", Some("Cancelled"), None, None)
        fetch == Effect("getRemoteQueryIndex")
    IN  IF w.status = "CompletedSuccessfully"
        THEN [start EXCEPT !.pc = "getIndex", !.log = <<fetch>>]
        ELSE IF w.status = "CompletedUnsuccessfully"
        THEN IF IsCancelledError(w.error)
             THEN [start EXCEPT !.pc = "getIndex", !.log = <<cancelledEvent, fetch>>]
             ELSE [start EXCEPT !.pc = "done",
                     !.log = <<StatusEvent(queryId, "Failed", w.error, None, None),
                               Effect("showErrorExecutionFailed")>>]
        ELSE IF w.status = "Cancelled"
        THEN [start EXCEPT !.pc = "getIndex", !.log = <<cancelledEvent, fetch>>]
        ELSE [start EXCEPT !.pc = "done",
                !.log = <<Effect("showExceptionUnexpectedStatus")>>]

MonitorRemoteQuery(c, queryId, w) ==
    /\ calls[c].pc = "idle"
    /\ \A b \in CallIds : b < c => calls[b].pc # "idle"
    /\ clock' = clock + 1
    /\ calls' = [calls EXCEPT ![c] =
         MonitorBranch([IdleCall EXCEPT !.queryId = queryId, !.workflow = w,
                                        !.executionEndTime = clock + 1],
                       queryId, w)]
    /\ UNCHANGED <<clipboard, compareVars,
                   dirExists, files, analysesResults, removing, pendingDownloads,
                   loaded, rehydrated, view, lastStored>>

\* what monitorRemoteQuery does after downloadAvailableResults has returned
AfterDownload(w) ==
    IF WasCancelled(w) THEN <<Effect("showInfoCancelled")>> ELSE << >>

\* downloadAvailableResults: getRemoteQueryIndex returned nothing
\* a Failed event that carries a failure reason
IndexUnavailableEffectsWithReason(queryId) ==
    <<Effect("showExceptionRetrieving"),
      StatusEvent(queryId, "Failed", Some("No result index"), None, None)>>

IndexUnavailableEffects(queryId) ==
    <<Effect("showExceptionRetrieving"),
      StatusEvent(queryId, "Failed", None, None, None)>>

IndexUnavailable(c) ==
    /\ calls[c].pc = "getIndex"
    /\ calls' = [calls EXCEPT ![c].pc = "done",
                   ![c].log = Fired(c, IndexUnavailableEffects(calls[c].queryId)
                                       \o AfterDownload(calls[c].workflow))]
    /\ UNCHANGED <<clipboard, compareVars,
                   dirExists, files, analysesResults, removing, clock,
                   pendingDownloads, loaded, rehydrated, view, lastStored>>

\* the Completed event downloadAvailableResults fires for a mapped result
\* a Completed event that counts the failed repositories as well
CompletedEventCountingFailures(queryId, queryResult) ==
    StatusEvent(queryId, "Completed", None,
                Some(Len(queryResult.analysisSummaries)
                     + Len(queryResult.analysisFailures)),
                Some(sumAnalysisSummariesResults(queryResult.analysisSummaries)))

CompletedEvent(queryId, queryResult) ==
    StatusEvent(queryId, "Completed", None,
                Some(Len(queryResult.analysisSummaries)),
                Some(sumAnalysisSummariesResults(queryResult.analysisSummaries)))

\* downloadAvailableResults: getRemoteQueryIndex returned a result index; the
\* repositories' metadata is fetched, the result mapped, the Completed event
\* fired and the write of query-result.json started
IndexAvailable(c, resultIndex, metadata) ==
    /\ calls[c].pc = "getIndex"
    /\ LET queryResult == mapQueryResult(calls[c].executionEndTime, resultIndex,
                                         calls[c].queryId, metadata)
       IN  calls' = [calls EXCEPT ![c].pc = "storing",
                       ![c].resultIndex = Some(resultIndex),
                       ![c].queryResult = Some(queryResult),
                       ![c].log = Fired(c, <<CompletedEvent(calls[c].queryId,
                                                            queryResult)>>)]
    /\ UNCHANGED <<clipboard, compareVars,
                   dirExists, files, analysesResults, removing, clock,
                   pendingDownloads, loaded, rehydrated, view, lastStored>>

\* what downloadAvailableResults does once the write has completed: the command
\* is issued and askToOpenResults started, both in the background
AfterStore ==
    <<Effect("writeQueryResult"), Effect("commandAutoDownload"),
      Effect("askToOpenResults")>>

\* the write of query-result.json completes
StoreCompleted(c) ==
    /\ calls[c].pc = "storing"
    /\ dirExists[calls[c].queryId]
    /\ files' = storeJsonFile(files, calls[c].queryId, calls[c].queryResult[1])
    /\ lastStored' = [lastStored EXCEPT ![calls[c].queryId] = calls[c].queryResult]
    /\ pendingDownloads' = pendingDownloads \cup {calls[c].queryResult[1]}
    /\ calls' = [calls EXCEPT ![c].pc = "done",
                   ![c].log = Fired(c, AfterStore \o AfterDownload(calls[c].workflow))]
    /\ UNCHANGED <<clipboard, compareVars,
                   dirExists, analysesResults, removing, clock, loaded,
                   rehydrated, view>>

\* the write fails (the directory is gone, or an I/O error): writeFile rejects and
\* the exception leaves downloadAvailableResults and monitorRemoteQuery
\* a failed write after which the command is issued all the same
StoreFailedStillDownloads(c) ==
    /\ calls[c].pc = "storing"
    /\ pendingDownloads' = pendingDownloads \cup {calls[c].queryResult[1]}
    /\ calls' = [calls EXCEPT ![c].pc = "threw",
                   ![c].log = Fired(c, <<Effect("writeFailed"),
                                         Effect("commandAutoDownload")>>)]
    /\ UNCHANGED <<clipboard, compareVars,
                   dirExists, files, analysesResults, removing, clock,
                   loaded, rehydrated, view, lastStored>>

StoreFailed(c) ==
    /\ calls[c].pc = "storing"
    /\ calls' = [calls EXCEPT ![c].pc = "threw",
                   ![c].log = Fired(c, <<Effect("writeFailed")>>)]
    /\ UNCHANGED <<clipboard, compareVars,
                   dirExists, files, analysesResults, removing, clock,
                   pendingDownloads, loaded, rehydrated, view, lastStored>>

-----------------------------------------------------------------------------
(* The handler of the codeQL.autoDownloadRemoteQueryResults command *)

AutoDownloadRemoteQueryResults(queryResult) ==
    /\ queryResult \in pendingDownloads
    /\ pendingDownloads' = pendingDownloads \ {queryResult}
    /\ loaded' = loaded \cup
                   {[queryResult |-> queryResult,
                     analyses |-> analysesToDownload(queryResult)]}
    /\ analysesResults' = loadAnalysesResults(analysesResults, queryResult.queryId,
                                              analysesToDownload(queryResult))
    /\ UNCHANGED <<clipboard, compareVars,
                   dirExists, files, removing, calls, clock, rehydrated, view,
                   lastStored>>

-----------------------------------------------------------------------------
(* rehydrateRemoteQuery, removeRemoteQuery, openRemoteQueryResults *)

\* a rehydration that starts the monitor whatever the record on disk
RehydrateEffectsWithoutElse(queryId, status) ==
    [queryId |-> queryId, status |-> status,
     removedEvents |-> IF ~queryRecordExists(queryId)
                       THEN <<[queryId |-> queryId]>> ELSE << >>,
     monitorCommands |-> IF status = "InProgress"
                         THEN <<[queryId |-> queryId]>> ELSE << >>]

\* the removed events rehydrateRemoteQuery fires, the monitor commands it issues
RehydrateEffects(queryId, status) ==
    [queryId |-> queryId, status |-> status,
     removedEvents |-> IF ~queryRecordExists(queryId)
                       THEN <<[queryId |-> queryId]>> ELSE << >>,
     monitorCommands |-> IF queryRecordExists(queryId) /\ status = "InProgress"
                         THEN <<[queryId |-> queryId]>> ELSE << >>]

RehydrateRemoteQuery(queryId, status) ==
    /\ rehydrated' = Some(RehydrateEffects(queryId, status))
    /\ UNCHANGED <<clipboard, compareVars,
                   dirExists, files, analysesResults, removing, calls, clock,
                   pendingDownloads, loaded, view, lastStored>>

\* removeRemoteQuery up to its await: the in-memory results are dropped and the
\* removal of the storage directory is started
RemoveRemoteQuery(queryId) ==
    /\ ~removing[queryId]
    /\ analysesResults' = removeAnalysesResults(analysesResults, queryId)
    /\ removing' = [removing EXCEPT ![queryId] = TRUE]
    /\ lastStored' = [lastStored EXCEPT ![queryId] = None]
    /\ UNCHANGED <<clipboard, compareVars,
                   dirExists, files, calls, clock, pendingDownloads, loaded,
                   rehydrated, view>>

\* removeStorageDirectory: the directory and the files in it are gone
removeStorageDirectory(queryId) ==
    /\ removing[queryId]
    /\ removing' = [removing EXCEPT ![queryId] = FALSE]
    /\ dirExists' = [dirExists EXCEPT ![queryId] = FALSE]
    /\ files' = [files EXCEPT ![queryId] = NoFile]
    /\ lastStored' = [lastStored EXCEPT ![queryId] = None]
    /\ UNCHANGED <<clipboard, compareVars,
                   analysesResults, calls, clock, pendingDownloads, loaded,
                   rehydrated, view>>

\* openRemoteQueryResults: query.json and query-result.json are read and the
\* result shown; a failed read is reported and nothing is shown
OpenRemoteQueryResults(queryId) ==
    /\ view' = IF dirExists[queryId] /\ CanRetrieve(queryId)
               THEN Some(retrieveJsonFile(queryId))
               ELSE view
    /\ UNCHANGED <<clipboard, compareVars,
                   dirExists, files, analysesResults, removing, calls, clock,
                   pendingDownloads, loaded, rehydrated, lastStored>>

-----------------------------------------------------------------------------

Next ==
    \/ \E c \in CallIds, q \in QueryIds, w \in WorkflowResults :
         MonitorRemoteQuery(c, q, w)
    \/ \E c \in CallIds : IndexUnavailable(c)
    \/ \E c \in CallIds, resultIndex \in ShortIndexes :
         \E metadata \in MetadataChoices(resultIndex) :
           IndexAvailable(c, resultIndex, metadata)
    \/ \E c \in CallIds : StoreCompleted(c)
    \/ \E c \in CallIds : StoreFailed(c)
    \/ \E queryResult \in pendingDownloads : AutoDownloadRemoteQueryResults(queryResult)
    \/ \E q \in QueryIds : RemoveRemoteQuery(q)
    \/ \E q \in QueryIds : removeStorageDirectory(q)

\* The monitoring of workflows: every way a workflow can end, every result index,
\* with queries being removed and results auto-downloaded meanwhile.
Spec == Init /\ [][Next]_vars

-----------------------------------------------------------------------------
(* The storage of a query: monitor calls of workflows that succeeded store *)
(* results, which are read back, removed and rehydrated.                   *)

FullIndexes == {x \in ShortIndexes : Len(x.successes) = MaxRepos}

NextStorage ==
    \/ \E c \in CallIds, q \in QueryIds :
         MonitorRemoteQuery(c, q, [status |-> "CompletedSuccessfully", error |-> None])
    \/ \E c \in CallIds, resultIndex \in FullIndexes :
         \E metadata \in MetadataChoices(resultIndex) :
           IndexAvailable(c, resultIndex, metadata)
    \/ \E c \in CallIds : StoreCompleted(c)
    \/ \E c \in CallIds : StoreFailed(c)
    \/ \E queryResult \in pendingDownloads : AutoDownloadRemoteQueryResults(queryResult)
    \/ \E q \in QueryIds, status \in QueryStatuses : RehydrateRemoteQuery(q, status)
    \/ \E q \in QueryIds : RemoveRemoteQuery(q)
    \/ \E q \in QueryIds : removeStorageDirectory(q)
    \/ \E q \in QueryIds : OpenRemoteQueryResults(q)

SpecStorage == Init /\ [][NextStorage]_vars

-----------------------------------------------------------------------------
(* autoDownloadRemoteQueryResults as a function of the query result it is  *)
(* given: the command has been issued with the mapped result of an index   *)
(* of any length around the count cap.                                     *)

AutoIndexes == ShortIndexes \cup LongIndexes

InitAuto ==
    /\ dirExists = [q \in QueryIds |-> TRUE]
    /\ files = [q \in QueryIds |-> NoFile]
    /\ analysesResults = [q \in QueryIds |-> {}]
    /\ removing = [q \in QueryIds |-> FALSE]
    /\ calls = [c \in CallIds |-> IdleCall]
    /\ clock = 1
    /\ \E resultIndex \in AutoIndexes :
         pendingDownloads = {mapQueryResult(1, resultIndex, "q1", MetadataFor({}))}
    /\ loaded = {}
    /\ rehydrated = None
    /\ view = None
    /\ lastStored = [q \in QueryIds |-> None]
    /\ clipboard = None
    /\ CompareInit

NextAuto ==
    \E queryResult \in pendingDownloads : AutoDownloadRemoteQueryResults(queryResult)

SpecAuto == InitAuto /\ [][NextAuto]_vars

-----------------------------------------------------------------------------
(* copyRemoteQueryRepoListToClipboard *)

\* os.EOL
EOL == "\n"

\* Array.prototype.join
RECURSIVE Join(_, _)
Join(lines, separator) ==
    IF Len(lines) = 0 THEN ""
    ELSE IF Len(lines) = 1 THEN lines[1]
    ELSE lines[1] \o separator \o Join(Tail(lines), separator)

\* a selection that keeps the repositories without results too
ReposAnyCount(analysisSummaries) ==
    LET kept == SelectSeq(analysisSummaries, LAMBDA a : a.resultCount >= 0)
    IN  [i \in DOMAIN kept |-> kept[i].nwo]

\* analysisSummaries.filter((a) => a.resultCount > 0).map((a) => a.nwo)
ReposWithResults(analysisSummaries) ==
    LET kept == SelectSeq(analysisSummaries, LAMBDA a : a.resultCount > 0)
    IN  [i \in DOMAIN kept |-> kept[i].nwo]

\* the lines of the text, for a non-empty list of repositories
RepoListText(repos) ==
    <<"\"new-repo-list\": [">>
    \o [i \in 1..(Len(repos) - 1) |-> "    \"" \o repos[i] \o "\","]
    \o <<"    \"" \o repos[Len(repos)] \o "\"">>
    \o <<"]">>

\* getRemoteQueryResult rejects when query-result.json cannot be read, and the
\* clipboard is then not reached
CopyRemoteQueryRepoListToClipboard(queryId) ==
    /\ clipboard' =
         IF dirExists[queryId] /\ CanRetrieve(queryId)
         THEN LET queryResult == retrieveJsonFile(queryId)
                  repos == ReposWithResults(queryResult.analysisSummaries)
              IN  IF Len(repos) > 0
                  THEN Some(Join(RepoListText(repos), EOL))
                  ELSE clipboard
         ELSE clipboard
    /\ UNCHANGED <<managerVars, compareVars>>

-----------------------------------------------------------------------------
(* The mapping and the copy over a wide family of result indexes: the      *)
(* first monitored query gets any index of up to MaxRepos + 1 repositories *)
(* of any kind and up to two failures, the second one a short index.       *)

MapIndexes ==
    { ResultIndex(Successes(p, Len(p)), f) :
        p \in Patterns(MaxRepos + 1), f \in {NoFailures, OneFailure, TwoFailures} }
    \cup {ResultIndex(<< >>, TwoFailures)}

Succeeded == [status |-> "CompletedSuccessfully", error |-> None]

NextResults ==
    \/ MonitorRemoteQuery(1, "q1", Succeeded)
    \/ MonitorRemoteQuery(2, "q2", Succeeded)
    \/ \E resultIndex \in MapIndexes :
         IndexAvailable(1, resultIndex, MetadataFor({}))
    \/ \E resultIndex \in ShortIndexes :
         IndexAvailable(2, resultIndex, MetadataFor({}))
    \/ \E c \in CallIds : StoreCompleted(c)
    \/ \E queryId \in QueryIds : CopyRemoteQueryRepoListToClipboard(queryId)

SpecResults == Init /\ [][NextResults]_vars

-----------------------------------------------------------------------------
(* The compare view.  Two completed local queries, the result sets their   *)
(* BQRS files hold (cliServer.bqrsInfo), and the names a message can ask   *)
(* for.                                                                    *)

Queries == {"queryA", "queryB"}

ResultSetNames == {"#select", "edges"}

\* bqrsInfo(resultsPath)["result-sets"], by name
bqrsInfo(query) ==
    IF query = "queryA" THEN <<"#select", "edges">> ELSE <<"#select">>

SelectedNames == {None, Some("edges")}

\* the names of the result sets both files hold, in the order of the first
findCommonResultSetNames(fromSchemas, toSchemas) ==
    SelectSeq(fromSchemas, LAMBDA n : \E i \in DOMAIN toSchemas : toSchemas[i] = n)

ComparePair(from, fromSchemas, to, toSchemas, commonResultSetNames) ==
    [from |-> from, fromSchemas |-> fromSchemas, to |-> to,
     toSchemas |-> toSchemas, commonResultSetNames |-> commonResultSetNames]

\* what findResultSetNames can answer: it throws, or it names a result set of
\* each side (the selected one when a name is selected) and, possibly, the name
\* to display
findResultSetNames(fromSchemas, toSchemas, commonResultSetNames, selectedResultSetName) ==
    LET asked == IF TruthyString(selectedResultSetName)
                 THEN {selectedResultSetName[1]} ELSE ResultSetNames
    IN  {[threw |-> TRUE, currentResultSetDisplayName |-> None,
          fromResultSetName |-> "", toResultSetName |-> ""]}
        \cup
        { [threw |-> FALSE, currentResultSetDisplayName |-> d,
           fromResultSetName |-> f, toResultSetName |-> t] :
            d \in {None} \cup {Some(n) : n \in asked}, f \in asked, t \in asked }

\* bqrsInfo["result-sets"].find((schema) => schema.name === resultSetName)
HasSchema(schemas, resultSetName) ==
    \E i \in DOMAIN schemas : schemas[i] = resultSetName

\* getResultSet: the decoded result set, identified by its file and its name
getResultSet(schemas, resultSetName, query) ==
    [query |-> query, name |-> resultSetName]

\* the comparison of two result sets (RawQueryCompareResult)
Comparison(fromResults, toResults) ==
    [from |-> fromResults.name, to |-> toResults.name]

\* resultsDiff returns the comparison of the two result sets or throws
resultsDiff(fromResults, toResults) ==
    { [threw |-> FALSE, result |-> Some(Comparison(fromResults, toResults)),
       error |-> None],
      [threw |-> TRUE, result |-> None,
       error |-> Some("CodeQL Compare: Columns do not match.")] }

\* the two messages the view posts to its webview (ToCompareViewMessage); loaded
\* records whether the panel had reported that it is loaded
Message(t, commonResultSetNames, result, currentResultSetName, message, isLoaded) ==
    [t |-> t, commonResultSetNames |-> commonResultSetNames, result |-> result,
     currentResultSetName |-> currentResultSetName, message |-> message,
     loaded |-> isLoaded]

SetComparisonQueryInfo(commonResultSetNames, isLoaded) ==
    Message("setComparisonQueryInfo", commonResultSetNames, None, None, None,
            isLoaded)

\* a message whose message field is a string in every case, empty on success
SetComparisonsWithEmptyMessage(outcome, currentResultSetDisplayName, isLoaded) ==
    Message("setComparisons", << >>,
            IF outcome.threw THEN None ELSE outcome.result,
            Some(currentResultSetDisplayName),
            IF outcome.threw THEN outcome.error ELSE Some(""), isLoaded)

\* try { result = compareResults(...) } catch (e) { message = getErrorMessage(e) }
SetComparisons(outcome, currentResultSetDisplayName, isLoaded) ==
    Message("setComparisons", << >>,
            IF outcome.threw THEN None ELSE outcome.result,
            Some(currentResultSetDisplayName),
            IF outcome.threw THEN outcome.error ELSE None, isLoaded)

Posted(task, messages) == [task EXCEPT !.log = task.log \o messages]

\* getPanel creates the panel when there is none
getPanel(p) == IF p = "none" THEN "loading" ELSE p

-----------------------------------------------------------------------------
(* showResults, showResultsInternal and the handlers of the messages and   *)
(* events of the panel.  A step runs from one suspension of the call to    *)
(* the next one that waits for something outside the extension host: the   *)
(* CLI (bqrsInfo, bqrsDecode), the webview (postMessage) or the report     *)
(* that the panel is loaded.                                               *)

\* showResults is called: the schemas of the two result files are asked for
ShowResults(t, from, to, selectedResultSetName) ==
    /\ tasks[t].pc = "idle"
    /\ \A b \in TaskIds : b < t => tasks[b].pc # "idle"
    /\ tasks' = [tasks EXCEPT ![t] =
                   [IdleTask EXCEPT !.pc = "schemas", !.kind = "showResults",
                                    !.from = from, !.to = to,
                                    !.selectedResultSetName = selectedResultSetName]]
    /\ disposedSince' = FALSE
    /\ UNCHANGED <<managerVars, clipboard, comparePair, panel, opened>>

\* a call that posts the query info without waiting for the panel to be loaded
AfterPairStoredWithoutWaiting(task, isLoaded) ==
    Posted([task EXCEPT !.pc = "postingInfo"],
           <<SetComparisonQueryInfo(task.commonResultSetNames, isLoaded)>>)

\* showResults after the compare pair is stored: getPanel, reveal,
\* waitForPanelLoaded, and the setComparisonQueryInfo message once loaded
AfterPairStored(task, isLoaded) ==
    IF isLoaded
    THEN Posted([task EXCEPT !.pc = "postingInfo"],
                <<SetComparisonQueryInfo(task.commonResultSetNames, TRUE)>>)
    ELSE [task EXCEPT !.pc = "waitLoaded"]

\* the schemas have arrived: the compare pair is stored
SchemasReturned(t) ==
    /\ tasks[t].pc = "schemas"
    /\ LET from == tasks[t].from
           to == tasks[t].to
           fromSchemas == bqrsInfo(from)
           toSchemas == bqrsInfo(to)
           commonResultSetNames == findCommonResultSetNames(fromSchemas, toSchemas)
       IN  /\ comparePair' = Some(ComparePair(from, fromSchemas, to, toSchemas,
                                              commonResultSetNames))
           /\ tasks' = [tasks EXCEPT ![t] =
                 AfterPairStored(
                    [tasks[t] EXCEPT !.commonResultSetNames = commonResultSetNames],
                    panel = "loaded")]
    /\ panel' = getPanel(panel)
    /\ UNCHANGED <<managerVars, clipboard, opened, disposedSince>>

\* showResultsInternal from its start to its first suspension
EnterShowResultsInternal(task) ==
    LET entered == [task EXCEPT !.from = "", !.to = "",
                                !.commonResultSetNames = << >>]
    IN  IF comparePair = None THEN [entered EXCEPT !.pc = "done"]
        ELSE IF panel = "loaded"
             THEN [entered EXCEPT !.pc = "finding", !.pair = comparePair]
             ELSE [entered EXCEPT !.pc = "waitInternal"]

PanelAfterEntering == IF comparePair = None THEN panel ELSE getPanel(panel)

\* the setComparisonQueryInfo message has been delivered: showResultsInternal
InfoPosted(t) ==
    /\ tasks[t].pc = "postingInfo"
    /\ tasks' = [tasks EXCEPT ![t] = EnterShowResultsInternal(tasks[t])]
    /\ panel' = PanelAfterEntering
    /\ UNCHANGED <<managerVars, clipboard, comparePair, opened, disposedSince>>

\* onMessage, changeCompare: changeTable, showResultsInternal
ChangeCompare(t, newResultSetName) ==
    /\ tasks[t].pc = "idle"
    /\ \A b \in TaskIds : b < t => tasks[b].pc # "idle"
    /\ tasks' = [tasks EXCEPT ![t] =
         EnterShowResultsInternal(
            [IdleTask EXCEPT !.kind = "changeCompare",
                             !.selectedResultSetName = Some(newResultSetName),
                             !.beganUndefined = (comparePair = None)])]
    /\ panel' = PanelAfterEntering
    /\ UNCHANGED <<managerVars, clipboard, comparePair, opened, disposedSince>>

\* a call that waited for the panel goes on when the panel reports that it is
\* loaded; findResultSetsToCompare takes this.comparePair apart, which throws
\* when the pair is undefined by then
ResumeLoaded(task) ==
    IF task.pc = "waitLoaded"
    THEN Posted([task EXCEPT !.pc = "postingInfo"],
                <<SetComparisonQueryInfo(task.commonResultSetNames, TRUE)>>)
    ELSE IF task.pc = "waitInternal"
    THEN IF comparePair = None
         THEN [task EXCEPT !.pc = "threw"]
         ELSE [task EXCEPT !.pc = "finding", !.pair = comparePair]
    ELSE task

\* onMessage, viewLoaded: onWebViewLoaded
ViewLoaded ==
    /\ panel = "loading"
    /\ panel' = "loaded"
    /\ tasks' = [t \in TaskIds |-> ResumeLoaded(tasks[t])]
    /\ UNCHANGED <<managerVars, clipboard, comparePair, opened, disposedSince>>

\* findResultSetsToCompare has returned or thrown; the comparison is posted
FindReturned(t) ==
    /\ tasks[t].pc = "finding"
    /\ LET pair == tasks[t].pair[1] IN
       \E found \in findResultSetNames(pair.fromSchemas, pair.toSchemas,
                                       pair.commonResultSetNames,
                                       tasks[t].selectedResultSetName) :
         LET task == [tasks[t] EXCEPT !.pair = None] IN
         IF found.threw
         THEN /\ tasks' = [tasks EXCEPT ![t] = [task EXCEPT !.pc = "threw"]]
              /\ panel' = panel
         ELSE IF \/ ~HasSchema(pair.fromSchemas, found.fromResultSetName)
                 \/ ~HasSchema(pair.toSchemas, found.toResultSetName)
         THEN /\ tasks' = [tasks EXCEPT ![t] =
                      [task EXCEPT !.pc = "threw", !.schemaMissing = TRUE]]
              /\ panel' = panel
         ELSE IF IsDefined(found.currentResultSetDisplayName)
         THEN \E outcome \in resultsDiff(
                     getResultSet(pair.fromSchemas, found.fromResultSetName,
                                  pair.from),
                     getResultSet(pair.toSchemas, found.toResultSetName,
                                  pair.to)) :
                /\ tasks' = [tasks EXCEPT ![t] =
                      Posted([task EXCEPT !.pc = "done",
                                          !.diff = IF outcome.threw THEN "threw"
                                                   ELSE "returned"],
                             <<SetComparisons(outcome,
                                              found.currentResultSetDisplayName[1],
                                              getPanel(panel) = "loaded")>>)]
                /\ panel' = getPanel(panel)
         ELSE /\ tasks' = [tasks EXCEPT ![t] = [task EXCEPT !.pc = "done"]]
              /\ panel' = panel
    /\ UNCHANGED <<managerVars, clipboard, comparePair, opened, disposedSince>>

\* the finished call or handler is forgotten
TaskReturned(t) ==
    /\ tasks[t].pc \in {"done", "threw"}
    /\ tasks' = [tasks EXCEPT ![t] = IdleTask]
    /\ UNCHANGED <<managerVars, clipboard, comparePair, panel, opened,
                   disposedSince>>

\* kind === "from" ? this.comparePair?.from : this.comparePair?.to
ToOpen(kind, pair) ==
    IF pair = None THEN None
    ELSE IF kind = "from" THEN Some(pair[1].from) ELSE Some(pair[1].to)

\* onMessage, openQuery: the callback is invoked with the query to open, if any
OpenQuery(kind) ==
    /\ opened' = IF IsDefined(ToOpen(kind, comparePair))
                 THEN ToOpen(kind, comparePair)
                 ELSE opened
    /\ UNCHANGED <<managerVars, clipboard, comparePair, panel, tasks,
                   disposedSince>>

\* a disposal that leaves the compare pair in place
onPanelDisposeKeepingPair(pair) == pair

onPanelDispose(pair) == None

\* the panel is closed: the webview forgets the panel and calls onPanelDispose
PanelDisposed ==
    /\ panel # "none"
    /\ panel' = "none"
    /\ comparePair' = onPanelDispose(comparePair)
    /\ disposedSince' = TRUE
    /\ UNCHANGED <<managerVars, clipboard, tasks, opened>>

NextCompare ==
    \/ \E t \in TaskIds, from \in Queries, to \in Queries,
          selectedResultSetName \in SelectedNames :
         ShowResults(t, from, to, selectedResultSetName)
    \/ \E t \in TaskIds : SchemasReturned(t)
    \/ \E t \in TaskIds : InfoPosted(t)
    \/ \E t \in TaskIds, newResultSetName \in ResultSetNames :
         ChangeCompare(t, newResultSetName)
    \/ ViewLoaded
    \/ \E t \in TaskIds : FindReturned(t)
    \/ \E t \in TaskIds : TaskReturned(t)
    \/ \E kind \in {"from", "to"} : OpenQuery(kind)
    \/ PanelDisposed

SpecCompare == Init /\ [][NextCompare]_vars

-----------------------------------------------------------------------------
(* Claims about autoDownloadRemoteQueryResults (under SpecAuto)            *)

\* the position in the summaries of the repository an analysis was made from
PositionOf(summaries, analysis) ==
    CHOOSE i \in DOMAIN summaries : summaries[i].nwo = analysis.nwo

HandedFrom(summaries, analysis) ==
    \E i \in DOMAIN summaries : summaries[i].nwo = analysis.nwo

\* C1: every analysis handed to loadAnalysesResults comes from a summary whose
\* fileSizeInBytes is strictly below 300 * 1024 = 307200, at most 100 analyses
\* are handed over, and a summary of exactly 307200 bytes is never handed over.
C1_SizeAndCountLimits ==
    \A l \in loaded :
        LET summaries == l.queryResult.analysisSummaries IN
        /\ Len(l.analyses) <= 100
        /\ \A j \in DOMAIN l.analyses :
             /\ HandedFrom(summaries, l.analyses[j])
             /\ summaries[PositionOf(summaries, l.analyses[j])].fileSizeInBytes < 307200
             /\ l.analyses[j].fileSize # ToString(307200)
        /\ \A i \in DOMAIN summaries :
             summaries[i].fileSizeInBytes = 307200 =>
                \A j \in DOMAIN l.analyses : l.analyses[j].nwo # summaries[i].nwo

\* a result with more than 100 summaries, one of them of exactly 307200 bytes, has
\* been handed over, and the cap was reached
C1_Witness ==
    \E l \in loaded :
        /\ Len(l.queryResult.analysisSummaries) > 100
        /\ \E i \in DOMAIN l.queryResult.analysisSummaries :
             l.queryResult.analysisSummaries[i].fileSizeInBytes = 307200
        /\ Len(l.analyses) = 100

\* C2: the analyses handed over are the first min(100, k) of the k size-eligible
\* summaries, in their original order: they come from strictly increasing
\* positions, each eligible and copied field by field, and no eligible summary
\* before the last one taken is left out.
EligiblePositions(summaries) ==
    {i \in DOMAIN summaries : summaries[i].fileSizeInBytes < 307200}

C2_FilterBeforeCap ==
    \A l \in loaded :
        LET summaries == l.queryResult.analysisSummaries
            h == l.analyses
            eligible == EligiblePositions(summaries)
            pos == [j \in DOMAIN h |-> PositionOf(summaries, h[j])]
        IN  /\ Len(h) = Min(100, Cardinality(eligible))
            /\ \A j \in DOMAIN h :
                 /\ HandedFrom(summaries, h[j])
                 /\ pos[j] \in eligible
                 /\ h[j].databaseSha = summaries[pos[j]].databaseSha
                 /\ h[j].resultCount = summaries[pos[j]].resultCount
                 /\ h[j].sourceLocationPrefix = summaries[pos[j]].sourceLocationPrefix
                 /\ h[j].downloadLink = summaries[pos[j]].downloadLink
                 /\ h[j].fileSize = ToString(summaries[pos[j]].fileSizeInBytes)
                 /\ j > 1 => pos[j - 1] < pos[j]
            /\ Len(h) > 0 =>
                 Cardinality({i \in eligible : i <= pos[Len(h)]}) = Len(h)

\* an oversized summary stood among the first 100, more than 100 summaries were
\* eligible, and a summary beyond position 100 was handed over
C2_Witness ==
    \E l \in loaded :
        LET summaries == l.queryResult.analysisSummaries IN
        /\ Cardinality(EligiblePositions(summaries)) > 100
        /\ \E i \in 1..100 : summaries[i].fileSizeInBytes >= 307200
        /\ Len(l.analyses) = 100
        /\ PositionOf(summaries, l.analyses[100]) > 100

-----------------------------------------------------------------------------
(* Claims about monitorRemoteQuery and downloadAvailableResults (under     *)
(* Spec).  What a call fires and does is read from its log.                *)

IsStatusEvent(x) == x.t = "statusUpdate"
StatusEvents(log) == SelectSeq(log, IsStatusEvent)

HasEffect(log, kind) == \E i \in DOMAIN log : log[i].t = kind

\* the part of a log after the first effect of a kind
After(log, kind) ==
    LET k == CHOOSE i \in DOMAIN log :
                 log[i].t = kind /\ \A j \in 1..(i - 1) : log[j].t # kind
    IN  SubSeq(log, k + 1, Len(log))

IsCompleted(x) == x.t = "statusUpdate" /\ x.status = "Completed"

\* the part of a log from its first Completed event on
FromCompleted(log) ==
    LET k == CHOOSE i \in DOMAIN log :
                 IsCompleted(log[i]) /\ \A j \in 1..(i - 1) : ~IsCompleted(log[j])
    IN  SubSeq(log, k, Len(log))

RECURSIVE TotalResultCount(_)
TotalResultCount(items) ==
    IF items = << >> THEN 0
    ELSE Head(items).resultCount + TotalResultCount(Tail(items))

Issued(queryResult) ==
    \/ queryResult \in pendingDownloads
    \/ \E l \in loaded : l.queryResult = queryResult

\* C3: a call that observed CompletedSuccessfully and got a result index has
\* fired exactly one status event: for its queryId, with status Completed,
\* repositoryCount the number of entries of resultIndex.successes and resultCount
\* the sum of their resultCount.
C3_OneCompletedEvent ==
    \A c \in CallIds :
        (/\ calls[c].workflow.status = "CompletedSuccessfully"
         /\ IsDefined(calls[c].resultIndex))
        => LET events == StatusEvents(calls[c].log)
               successes == calls[c].resultIndex[1].successes
           IN  /\ Len(events) = 1
               /\ events[1].queryId = calls[c].queryId
               /\ events[1].status = "Completed"
               /\ events[1].repositoryCount = Some(Len(successes))
               /\ events[1].resultCount = Some(TotalResultCount(successes))

\* a successful call has returned with a result index of two repositories and a
\* failure, holding five results in all
C3_Witness ==
    \E c \in CallIds :
        /\ calls[c].pc = "done"
        /\ calls[c].workflow.status = "CompletedSuccessfully"
        /\ IsDefined(calls[c].resultIndex)
        /\ Len(calls[c].resultIndex[1].successes) = 2
        /\ Len(calls[c].resultIndex[1].failures) = 1
        /\ TotalResultCount(calls[c].resultIndex[1].successes) = 5

\* the two ways a workflow is reported as cancelled
CancelledWorkflow(w) ==
    \/ w.status = "Cancelled"
    \/ /\ w.status = "CompletedUnsuccessfully"
       /\ w.error = Some("The run was cancelled by a user")

C5_FailedWithoutDownload ==
    \A c \in CallIds :
        LET call == calls[c] IN
        (/\ call.pc # "idle"
         /\ call.workflow.status = "CompletedUnsuccessfully"
         /\ call.workflow.error \in {None, Some("Workflow failed")})
        => /\ call.pc = "done"
           /\ StatusEvents(call.log) =
                <<StatusEvent(call.queryId, "Failed", call.workflow.error, None, None)>>
           /\ ~HasEffect(call.log, "getRemoteQueryIndex")
           /\ ~HasEffect(call.log, "writeQueryResult")
           /\ ~HasEffect(call.log, "commandAutoDownload")
           /\ call.resultIndex = None
           /\ call.queryResult = None

\* one call has failed with an error text and another with no error at all
C5_Witness ==
    \E c, d \in CallIds :
        /\ calls[c].pc = "done" /\ calls[d].pc = "done"
        /\ calls[c].workflow = [status |-> "CompletedUnsuccessfully",
                                error |-> Some("Workflow failed")]
        /\ calls[d].workflow = [status |-> "CompletedUnsuccessfully", error |-> None]

\* C6: when getRemoteQueryIndex returned nothing, downloadAvailableResults has
\* fired exactly one status event, Failed without failureReason, repositoryCount
\* or resultCount; nothing was written, no command issued, and the call has
\* fired no Completed event.
C6_FailedWhenIndexUnavailable ==
    \A c \in CallIds :
        LET call == calls[c] IN
        (/\ call.pc = "done"
         /\ HasEffect(call.log, "getRemoteQueryIndex")
         /\ call.resultIndex = None)
        => /\ StatusEvents(After(call.log, "getRemoteQueryIndex")) =
                <<StatusEvent(call.queryId, "Failed", None, None, None)>>
           /\ ~HasEffect(call.log, "writeQueryResult")
           /\ ~HasEffect(call.log, "commandAutoDownload")
           /\ ~HasEffect(call.log, "askToOpenResults")
           /\ \A i \in DOMAIN call.log : ~IsCompleted(call.log[i])
           /\ \A l \in loaded : l.queryResult.executionEndTime # call.executionEndTime
           /\ \A r \in pendingDownloads : r.executionEndTime # call.executionEndTime

\* the call of a cancelled workflow has found no result index
C6_Witness ==
    \E c \in CallIds :
        /\ calls[c].pc = "done"
        /\ calls[c].workflow.status = "Cancelled"
        /\ HasEffect(calls[c].log, "getRemoteQueryIndex")
        /\ calls[c].resultIndex = None

\* C10: with a result index available the Completed event is fired first, then
\* query-result.json is written, then the auto-download command is issued and
\* the prompt shown; while the write is pending neither has happened, and after
\* a failed write neither happens although the Completed event has been fired.
C10_OrderOfSteps ==
    \A c \in CallIds :
        LET call == calls[c] IN
        IsDefined(call.queryResult) =>
            /\ call.pc \in {"storing", "done", "threw"}
            /\ \E i \in DOMAIN call.log : IsCompleted(call.log[i])
            /\ call.pc = "storing" =>
                 /\ Len(FromCompleted(call.log)) = 1
                 /\ ~Issued(call.queryResult[1])
            /\ call.pc = "done" =>
                 /\ Len(FromCompleted(call.log)) >= 4
                 /\ SubSeq(FromCompleted(call.log), 2, 4) =
                      <<Effect("writeQueryResult"), Effect("commandAutoDownload"),
                        Effect("askToOpenResults")>>
                 /\ Issued(call.queryResult[1])
            /\ call.pc = "threw" =>
                 /\ Tail(FromCompleted(call.log)) = <<Effect("writeFailed")>>
                 /\ ~HasEffect(call.log, "commandAutoDownload")
                 /\ ~HasEffect(call.log, "askToOpenResults")
                 /\ ~Issued(call.queryResult[1])

\* one call has written its result and gone on, the write of another has failed
C10_Witness ==
    \E c, d \in CallIds :
        /\ calls[c].pc = "done" /\ IsDefined(calls[c].queryResult)
        /\ calls[d].pc = "threw" /\ IsDefined(calls[d].queryResult)

-----------------------------------------------------------------------------
(* Claims about the storage of a query (under SpecStorage)                 *)

\* C7: as long as no later store for the queryId and no removeRemoteQuery of it
\* has happened, reading query-result.json yields a value equal to the stored
\* RemoteQueryResult, also when openRemoteQueryResults reads it; a store leaves
\* the files of the other queryIds as they are.
C7_ReadsBackWhatWasStored ==
    \A q \in QueryIds :
        IsDefined(lastStored[q]) =>
            /\ CanRetrieve(q)
            /\ retrieveJsonFile(q) = lastStored[q][1]

C7_OpenShowsWhatWasStored ==
    \A q \in QueryIds :
        (OpenRemoteQueryResults(q) /\ IsDefined(lastStored[q]))
        => view' = lastStored[q]

C7_StoreLeavesOtherFiles ==
    \A c \in CallIds :
        StoreCompleted(c) =>
            \A q \in QueryIds \ {calls[c].queryId} : files'[q] = files[q]

C7_PersistenceRoundTrip ==
    /\ []C7_ReadsBackWhatWasStored
    /\ [][C7_OpenShowsWhatWasStored /\ C7_StoreLeavesOtherFiles]_vars

\* the result stored for q1, with the star count known for one repository and
\* undefined for another, has been read back and shown, while q2 holds a result
\* of its own
C7_Witness ==
    /\ IsDefined(lastStored["q1"])
    /\ view = lastStored["q1"]
    /\ \E i, j \in DOMAIN view[1].analysisSummaries :
         /\ IsDefined(view[1].analysisSummaries[i].starCount)
         /\ ~IsDefined(view[1].analysisSummaries[j].starCount)
    /\ IsDefined(lastStored["q2"])
    /\ files["q2"] # files["q1"]

\* C8: rehydrateRemoteQuery does exactly one of three things: without a storage
\* directory it fires one removed event for the queryId and issues no command,
\* whatever the status; with a directory and status InProgress it issues the
\* monitor command once and fires no event; otherwise it does neither.
C8_RehydrateStep ==
    \A q \in QueryIds, status \in QueryStatuses :
        RehydrateRemoteQuery(q, status) =>
            LET did == rehydrated'[1] IN
            /\ ~dirExists[q] =>
                 /\ did.removedEvents = <<[queryId |-> q]>>
                 /\ did.monitorCommands = << >>
            /\ (dirExists[q] /\ status = "InProgress") =>
                 /\ did.removedEvents = << >>
                 /\ did.monitorCommands = <<[queryId |-> q]>>
            /\ (dirExists[q] /\ status # "InProgress") =>
                 /\ did.removedEvents = << >>
                 /\ did.monitorCommands = << >>

C8_RehydrateOneOfThree == [][C8_RehydrateStep]_vars

\* a query in progress has been rehydrated with its directory on disk and, the
\* directory of the other query being gone, the monitor command was issued
C8_Witness ==
    /\ IsDefined(rehydrated)
    /\ rehydrated[1].status = "InProgress"
    /\ rehydrated[1].monitorCommands # << >>
    /\ dirExists[rehydrated[1].queryId]
    /\ \E q \in QueryIds : ~dirExists[q]

\* C9: when removeRemoteQuery(queryId) completes, the in-memory analyses results
\* and the storage directory of that queryId are gone and the directories of the
\* other queryIds are unchanged; a rehydration of a query without a directory
\* fires the removed event and issues no monitor command, whatever the status.
C9_RemoveStep ==
    \A q \in QueryIds :
        removeStorageDirectory(q) =>
            /\ ~dirExists'[q]
            /\ analysesResults'[q] = {}
            /\ \A o \in QueryIds \ {q} : dirExists'[o] = dirExists[o]

C9_RehydrateAfterRemove ==
    \A q \in QueryIds, status \in QueryStatuses :
        (RehydrateRemoteQuery(q, status) /\ ~dirExists[q]) =>
            /\ rehydrated'[1].removedEvents = <<[queryId |-> q]>>
            /\ rehydrated'[1].monitorCommands = << >>

C9_RemovedLeavesNothing ==
    [][C9_RemoveStep /\ C9_RehydrateAfterRemove /\
       (\A q \in QueryIds : ~dirExists[q] /\ ~removing[q] => ~dirExists'[q])]_vars

-----------------------------------------------------------------------------
(* Claims about mapQueryResult and the repository list (under SpecResults) *)

\* the result index and the mapped result a call holds agree at position i
SummaryAgrees(item, summary) ==
    /\ summary.nwo = item.nwo
    /\ IF IsDefined(item.sarifFileSize) /\ item.sarifFileSize[1] # 0
       THEN /\ summary.fileSizeInBytes = item.sarifFileSize[1]
            /\ summary.downloadLink.innerFilePath = "results.sarif"
       ELSE /\ summary.fileSizeInBytes = item.bqrsFileSize
            /\ summary.downloadLink.innerFilePath = "results.bqrs"
    /\ summary.databaseSha =
         IF item.sha = None \/ item.sha = Some("") THEN "HEAD" ELSE item.sha[1]

\* C11: the mapped result has one summary per success and one failure per
\* failure of the result index, in the same order; in each summary the size and
\* the inner file agree (the SARIF size and "results.sarif" when a non-zero
\* SARIF size is reported, else the BQRS size and "results.bqrs"), and the
\* databaseSha is the item's sha, or "HEAD" when the sha is missing or empty.
C11_MappedResultFollowsIndex ==
    \A c \in CallIds :
        IsDefined(calls[c].queryResult) =>
            LET resultIndex == calls[c].resultIndex[1]
                queryResult == calls[c].queryResult[1]
            IN  /\ Len(queryResult.analysisSummaries) = Len(resultIndex.successes)
                /\ Len(queryResult.analysisFailures) = Len(resultIndex.failures)
                /\ \A i \in DOMAIN resultIndex.successes :
                      SummaryAgrees(resultIndex.successes[i],
                                    queryResult.analysisSummaries[i])
                /\ \A i \in DOMAIN resultIndex.failures :
                      /\ queryResult.analysisFailures[i].nwo =
                            resultIndex.failures[i].nwo
                      /\ queryResult.analysisFailures[i].error =
                            resultIndex.failures[i].error

\* a mapped index with two failures, a repository without a SARIF size, one
\* with a SARIF size of 0 and an empty sha, and one with a non-zero SARIF size
C11_Witness ==
    \E c \in CallIds :
        /\ IsDefined(calls[c].queryResult)
        /\ Len(calls[c].resultIndex[1].failures) = 2
        /\ \E i, j, k \in DOMAIN calls[c].resultIndex[1].successes :
              LET successes == calls[c].resultIndex[1].successes
                  summaries == calls[c].queryResult[1].analysisSummaries
              IN  /\ i < j /\ j < k
                  /\ successes[i].sarifFileSize = Some(0)
                  /\ successes[i].sha = Some("")
                  /\ summaries[i].downloadLink.innerFilePath = "results.bqrs"
                  /\ successes[j].sarifFileSize = None
                  /\ successes[j].sha = None
                  /\ summaries[j].databaseSha = "HEAD"
                  /\ successes[k].sarifFileSize # None
                  /\ summaries[k].downloadLink.innerFilePath = "results.sarif"

\* the lines of a text: what stands between its line ends
RECURSIVE LinesOf(_, _)
LinesOf(text, from) ==
    IF \E i \in from..Len(text) : SubSeq(text, i, i) = "\n"
    THEN LET i == CHOOSE i \in from..Len(text) :
                    /\ SubSeq(text, i, i) = "\n"
                    /\ \A j \in from..(i - 1) : SubSeq(text, j, j) # "\n"
         IN  <<SubSeq(text, from, i - 1)>> \o LinesOf(text, i + 1)
    ELSE <<SubSeq(text, from, Len(text))>>

\* the positions of the stored summaries that have results, and the j-th of them
PositionsWithResults(summaries) ==
    {i \in DOMAIN summaries : summaries[i].resultCount > 0}

NthPosition(positions, j) ==
    CHOOSE i \in positions : Cardinality({h \in positions : h < i}) = j - 1

\* the text lists exactly the repositories with results, in stored order
ListsReposWithResults(text, summaries) ==
    LET positions == PositionsWithResults(summaries)
        count == Cardinality(positions)
        lines == LinesOf(text, 1)
    IN  /\ Len(lines) = count + 2
        /\ lines[1] = "\"new-repo-list\": ["
        /\ lines[count + 2] = "]"
        /\ \A j \in 1..count :
              lines[j + 1] =
                "    \"" \o summaries[NthPosition(positions, j)].nwo
                        \o (IF j < count THEN "\"," ELSE "\"")

C12_CopyStep ==
    \A queryId \in QueryIds :
        CopyRemoteQueryRepoListToClipboard(queryId) /\ IsDefined(lastStored[queryId]) =>
            LET summaries == lastStored[queryId][1].analysisSummaries
            IN  IF PositionsWithResults(summaries) # {}
                THEN /\ IsDefined(clipboard')
                     /\ ListsReposWithResults(clipboard'[1], summaries)
                ELSE clipboard' = clipboard

\* C12: copying the repository list of a stored query result writes to the
\* clipboard exactly when a summary has resultCount > 0; the text then lists
\* the repositories with resultCount > 0 in stored order, one per line between
\* the lines '"new-repo-list": [' and ']', with a comma after every repository
\* line but the last; otherwise the clipboard is left as it was.
C12_RepoListOnClipboard == [][C12_CopyStep]_vars

\* the list of two of three stored repositories is on the clipboard, and the
\* other stored query result has no repository with results
C12_Witness ==
    /\ IsDefined(clipboard)
    /\ \E queryId \in QueryIds :
          /\ IsDefined(lastStored[queryId])
          /\ Len(lastStored[queryId][1].analysisSummaries) = 3
          /\ lastStored[queryId][1].analysisSummaries[2].resultCount = 0
          /\ Len(LinesOf(clipboard[1], 1)) = 4
          /\ ListsReposWithResults(clipboard[1],
                                   lastStored[queryId][1].analysisSummaries)
    /\ \E queryId \in QueryIds :
          /\ IsDefined(lastStored[queryId])
          /\ PositionsWithResults(lastStored[queryId][1].analysisSummaries) = {}

-----------------------------------------------------------------------------
(* Claims about the compare view (under SpecCompare)                       *)

IsInfo(m) == m.t = "setComparisonQueryInfo"
IsComparisons(m) == m.t = "setComparisons"

InfoPositions(log) == {i \in DOMAIN log : IsInfo(log[i])}
ComparisonsPositions(log) == {i \in DOMAIN log : IsComparisons(log[i])}

\* the message is handled at once and nothing is posted
HandledWithoutPosting(task) == task.pc = "done" /\ task.log = << >>

C13_OriginalStep ==
    /\ disposedSince' => comparePair' = None
    /\ \A t \in TaskIds, newResultSetName \in ResultSetNames :
          ChangeCompare(t, newResultSetName) /\ disposedSince =>
              HandledWithoutPosting(tasks'[t])
    /\ \A kind \in {"from", "to"} :
          OpenQuery(kind) /\ disposedSince => opened' = opened

\* C13 as stated: from the disposal of the panel until the next call of
\* showResults the compare pair is undefined, a changeCompare message posts no
\* setComparisons message and an openQuery message does not invoke the callback.
C13_UndefinedUntilNextCall == [][C13_OriginalStep]_vars

C13_Step ==
    /\ PanelDisposed => comparePair' = None
    /\ comparePair = None /\ comparePair' # None =>
          \E t \in TaskIds : SchemasReturned(t)
    /\ \A t \in TaskIds, newResultSetName \in ResultSetNames :
          ChangeCompare(t, newResultSetName) /\ comparePair = None =>
              HandledWithoutPosting(tasks'[t])
    /\ \A kind \in {"from", "to"} :
          OpenQuery(kind) /\ comparePair = None => opened' = opened

\* C13, amended: the disposal of the panel makes the compare pair undefined,
\* and it stays undefined until a showResults call stores a pair, which a call
\* begun before the disposal can do as well; while the compare pair is
\* undefined a changeCompare message posts no setComparisons message and an
\* openQuery message does not invoke the show-query-results callback.
C13_UndefinedUntilPairStored == [][C13_Step]_vars

\* after a disposal, with the callback invoked before it, a changeCompare
\* message has been handled while the compare pair was undefined
C13_Witness ==
    /\ disposedSince
    /\ comparePair = None
    /\ IsDefined(opened)
    /\ \E t \in TaskIds :
          /\ tasks[t].kind = "changeCompare"
          /\ tasks[t].beganUndefined
          /\ HandledWithoutPosting(tasks[t])

\* what a showResults call has posted so far
C14_Log ==
    \A t \in TaskIds :
        tasks[t].kind = "showResults" =>
            LET log == tasks[t].log IN
            /\ Cardinality(InfoPositions(log)) <= 1
            /\ tasks[t].pc \in {"schemas", "waitLoaded"} => log = << >>
            /\ tasks[t].pc \notin {"schemas", "waitLoaded"} =>
                  Cardinality(InfoPositions(log)) = 1
            /\ \A i \in InfoPositions(log) : log[i].loaded
            /\ \A j \in ComparisonsPositions(log) :
                  \E i \in InfoPositions(log) : i < j
            /\ tasks[t].pc = "postingInfo" =>
                  log[1].commonResultSetNames = tasks[t].commonResultSetNames

C14_Step ==
    /\ C14_Log'
    /\ \A t \in TaskIds :
          SchemasReturned(t) =>
              /\ IsDefined(comparePair')
              /\ comparePair'[1].commonResultSetNames =
                    tasks'[t].commonResultSetNames

C15_ResultOrMessage ==
    \A t \in TaskIds :
        LET log == tasks[t].log IN
        /\ \A i \in ComparisonsPositions(log) :
              /\ IsDefined(log[i].currentResultSetName)
              /\ IsDefined(log[i].result) # IsDefined(log[i].message)
              /\ tasks[t].diff \in {"returned", "threw"}
              /\ tasks[t].diff = "returned" => IsDefined(log[i].result)
              /\ tasks[t].diff = "threw" =>
                    /\ IsDefined(log[i].message)
                    /\ log[i].message[1] # ""
        /\ tasks[t].diff # "none" =>
              tasks[t].pc = "done" /\ Cardinality(ComparisonsPositions(log)) = 1
        /\ tasks[t].schemaMissing =>
              tasks[t].pc = "threw" /\ ComparisonsPositions(log) = {}

\* one call has posted the error text of a diff that threw, the other has
\* thrown for a result set name without a schema
C15_Witness ==
    \E t, u \in TaskIds :
        /\ tasks[t].diff = "threw"
        /\ tasks[t].pc = "done"
        /\ \E i \in ComparisonsPositions(tasks[t].log) :
              IsDefined(tasks[t].log[i].message)
        /\ tasks[u].schemaMissing
        /\ tasks[u].pc = "threw"

====
